---- MODULE Spec2Model ----
(***************************************************************************)
(* A model of the T.LY Go client (package tly, client.go): the Client      *)
(* credential context, the request dispatcher doRequest, the resource      *)
(* operations built on it, and the JSON mapping that the struct tags of    *)
(* the request and result types declare.                                   *)
(*                                                                         *)
(* Text is modelled as a sequence of string pieces (concatenation is \o),  *)
(* so that the shape of a URL or a query string can be inspected piece by  *)
(* piece.  A body on the wire is either no bytes at all, bytes that are    *)
(* not JSON, or the text of one JSON value.                                *)
(***************************************************************************)
EXTENDS Integers, Sequences, FiniteSets, TLC

(***************************************************************************)
(* Bounds of the model.                                                    *)
(***************************************************************************)
MaxId == 2
MaxParams == 2

(***************************************************************************)
(* JSON values.                                                            *)
(***************************************************************************)
JNull == [j |-> "null"]
JNum(n) == [j |-> "num", n |-> n]
JStr(s) == [j |-> "str", s |-> s]
JBool(b) == [j |-> "bool", b |-> b]
JArr(a) == [j |-> "arr", a |-> a]
JObj(o) == [j |-> "obj", o |-> o]
EmptyObj == [k \in {} |-> JNull]

(***************************************************************************)
(* Go values.  A pointer is <<>> (nil) or <<v>>; a slice and a map keep    *)
(* nil apart from empty; an interface{} value carries its dynamic type.    *)
(***************************************************************************)
NilPtr == <<>>
Ptr(v) == <<v>>
NilSlice == [nil |-> TRUE, elems |-> <<>>]
Slice(s) == [nil |-> FALSE, elems |-> s]
NilMap == [nilmap |-> TRUE, m |-> EmptyObj]
AnyNil == [t |-> "nil"]
AnyFloat(n) == [t |-> "float64", n |-> n]
AnyString(s) == [t |-> "string", s |-> s]
AnyBool(b) == [t |-> "bool", b |-> b]
AnyChan == [t |-> "chan"]
AnySlice(s) == [t |-> "slice", elems |-> s]
AnyMap(m) == [t |-> "map", m |-> m]

(***************************************************************************)
(* The struct types of client.go: per field its Go name, its json tag      *)
(* name, its Go type and whether the tag says omitempty.                   *)
(***************************************************************************)
Fld(name, tag, kind, omitempty) ==
    [name |-> name, tag |-> tag, kind |-> kind, omitempty |-> omitempty]

Pixel ==
    << Fld("ID", "id", "int", FALSE),
       Fld("Name", "name", "string", FALSE),
       Fld("PixelID", "pixel_id", "string", FALSE),
       Fld("PixelType", "pixel_type", "string", FALSE),
       Fld("CreatedAt", "created_at", "string", FALSE),
       Fld("UpdatedAt", "updated_at", "string", FALSE) >>

PixelCreateRequest ==
    << Fld("Name", "name", "string", FALSE),
       Fld("PixelID", "pixel_id", "string", FALSE),
       Fld("PixelType", "pixel_type", "string", FALSE) >>

PixelUpdateRequest ==
    << Fld("ID", "id", "int", FALSE),
       Fld("Name", "name", "string", FALSE),
       Fld("PixelID", "pixel_id", "string", FALSE),
       Fld("PixelType", "pixel_type", "string", FALSE) >>

ShortLink ==
    << Fld("ShortURL", "short_url", "string", FALSE),
       Fld("Description", "description", "string", FALSE),
       Fld("LongURL", "long_url", "string", FALSE),
       Fld("Domain", "domain", "string", FALSE),
       Fld("ShortID", "short_id", "string", FALSE),
       Fld("ExpireAtViews", "expire_at_views", "any", FALSE),
       Fld("ExpireAtDatetime", "expire_at_datetime", "any", FALSE),
       Fld("PublicStats", "public_stats", "bool", FALSE),
       Fld("CreatedAt", "created_at", "string", FALSE),
       Fld("UpdatedAt", "updated_at", "string", FALSE),
       Fld("Meta", "meta", "any", FALSE) >>

ShortLinkCreateRequest ==
    << Fld("LongURL", "long_url", "string", FALSE),
       Fld("ShortID", "short_id", "*string", TRUE),
       Fld("Domain", "domain", "string", FALSE),
       Fld("ExpireAtDatetime", "expire_at_datetime", "*string", TRUE),
       Fld("ExpireAtViews", "expire_at_views", "*int", TRUE),
       Fld("Description", "description", "*string", TRUE),
       Fld("PublicStats", "public_stats", "*bool", TRUE),
       Fld("Password", "password", "*string", TRUE),
       Fld("Tags", "tags", "[]int", TRUE),
       Fld("Pixels", "pixels", "[]int", TRUE),
       Fld("Meta", "meta", "any", TRUE) >>

ShortLinkUpdateRequest ==
    << Fld("ShortURL", "short_url", "string", FALSE),
       Fld("ShortID", "short_id", "*string", TRUE),
       Fld("LongURL", "long_url", "string", FALSE),
       Fld("ExpireAtDatetime", "expire_at_datetime", "*string", TRUE),
       Fld("ExpireAtViews", "expire_at_views", "*int", TRUE),
       Fld("Description", "description", "*string", TRUE),
       Fld("PublicStats", "public_stats", "*bool", TRUE),
       Fld("Password", "password", "*string", TRUE),
       Fld("Tags", "tags", "[]int", TRUE),
       Fld("Pixels", "pixels", "[]int", TRUE),
       Fld("Meta", "meta", "any", TRUE) >>

ExpandRequest ==
    << Fld("ShortURL", "short_url", "string", FALSE),
       Fld("Password", "password", "*string", TRUE) >>

ExpandResponse ==
    << Fld("LongURL", "long_url", "string", FALSE),
       Fld("Expired", "expired", "bool", FALSE) >>

BulkShortenRequest ==
    << Fld("Domain", "domain", "string", FALSE),
       Fld("Links", "links", "[]string", FALSE),
       Fld("Tags", "tags", "[]int", TRUE),
       Fld("Pixels", "pixels", "[]int", TRUE) >>

Stats ==
    << Fld("Clicks", "clicks", "int", FALSE),
       Fld("UniqueClicks", "unique_clicks", "int", FALSE),
       Fld("Browsers", "browsers", "[]any", FALSE),
       Fld("Countries", "countries", "[]any", FALSE),
       Fld("Referrers", "referrers", "[]any", FALSE),
       Fld("Platforms", "platforms", "[]any", FALSE),
       Fld("DailyClicks", "daily_clicks", "[]any", FALSE),
       Fld("Data", "data", "map", FALSE) >>

Tag ==
    << Fld("ID", "id", "int", FALSE),
       Fld("Tag", "tag", "string", FALSE),
       Fld("CreatedAt", "created_at", "string", FALSE),
       Fld("UpdatedAt", "updated_at", "string", FALSE) >>

(***************************************************************************)
(* The schema a type name stands for.                                      *)
(***************************************************************************)
SchemaOf(T) ==
    CASE T = "Pixel" -> Pixel
      [] T = "PixelCreateRequest" -> PixelCreateRequest
      [] T = "PixelUpdateRequest" -> PixelUpdateRequest
      [] T = "ShortLink" -> ShortLink
      [] T = "ShortLinkCreateRequest" -> ShortLinkCreateRequest
      [] T = "ShortLinkUpdateRequest" -> ShortLinkUpdateRequest
      [] T = "ExpandRequest" -> ExpandRequest
      [] T = "ExpandResponse" -> ExpandResponse
      [] T = "BulkShortenRequest" -> BulkShortenRequest
      [] T = "Stats" -> Stats
      [] T = "Tag" -> Tag

FieldNames(schema) == {schema[i].name : i \in 1..Len(schema)}
TagNames(schema) == {schema[i].tag : i \in 1..Len(schema)}
FieldOf(schema, name) ==
    schema[CHOOSE i \in 1..Len(schema) : schema[i].name = name]
FieldTagged(schema, tag) ==
    schema[CHOOSE i \in 1..Len(schema) : schema[i].tag = tag]

(***************************************************************************)
(* The zero value of a Go type: what `var x T` holds.                      *)
(***************************************************************************)
ZeroOf(kind) ==
    CASE kind = "int" -> 0
      [] kind = "string" -> ""
      [] kind = "bool" -> FALSE
      [] kind \in {"*string", "*int", "*bool"} -> NilPtr
      [] kind \in {"[]int", "[]string", "[]any"} -> NilSlice
      [] kind = "any" -> AnyNil
      [] kind = "map" -> NilMap

ZeroStruct(schema) ==
    [name \in FieldNames(schema) |-> ZeroOf(FieldOf(schema, name).kind)]

(***************************************************************************)
(* json.Marshal.  isEmptyValue is what omitempty tests: false, 0, "", a    *)
(* nil pointer or interface, and a slice or map of length 0.               *)
(***************************************************************************)
IsEmptyValue(kind, v) ==
    CASE kind = "int" -> v = 0
      [] kind = "string" -> v = ""
      [] kind = "bool" -> ~v
      [] kind \in {"*string", "*int", "*bool"} -> v = NilPtr
      [] kind \in {"[]int", "[]string", "[]any"} -> Len(v.elems) = 0
      [] kind = "any" -> v.t = "nil"
      [] kind = "map" -> DOMAIN v.m = {}

RECURSIVE AnyEncodable(_)
AnyEncodable(a) ==
    CASE a.t = "chan" -> FALSE
      [] a.t = "slice" -> \A i \in 1..Len(a.elems) : AnyEncodable(a.elems[i])
      [] a.t = "map" -> \A k \in DOMAIN a.m : AnyEncodable(a.m[k])
      [] OTHER -> TRUE

RECURSIVE AnyToJSON(_)
AnyToJSON(a) ==
    CASE a.t = "nil" -> JNull
      [] a.t = "float64" -> JNum(a.n)
      [] a.t = "string" -> JStr(a.s)
      [] a.t = "bool" -> JBool(a.b)
      [] a.t = "slice" -> JArr([i \in 1..Len(a.elems) |-> AnyToJSON(a.elems[i])])
      [] a.t = "map" -> JObj([k \in DOMAIN a.m |-> AnyToJSON(a.m[k])])

Encodable(kind, v) ==
    CASE kind = "any" -> AnyEncodable(v)
      [] kind = "[]any" -> \A i \in 1..Len(v.elems) : AnyEncodable(v.elems[i])
      [] kind = "map" -> \A k \in DOMAIN v.m : AnyEncodable(v.m[k])
      [] OTHER -> TRUE

ToJSON(kind, v) ==
    CASE kind = "int" -> JNum(v)
      [] kind = "string" -> JStr(v)
      [] kind = "bool" -> JBool(v)
      [] kind = "*string" -> IF v = NilPtr THEN JNull ELSE JStr(v[1])
      [] kind = "*int" -> IF v = NilPtr THEN JNull ELSE JNum(v[1])
      [] kind = "*bool" -> IF v = NilPtr THEN JNull ELSE JBool(v[1])
      [] kind = "[]int" ->
            IF v.nil THEN JNull
            ELSE JArr([i \in 1..Len(v.elems) |-> JNum(v.elems[i])])
      [] kind = "[]string" ->
            IF v.nil THEN JNull
            ELSE JArr([i \in 1..Len(v.elems) |-> JStr(v.elems[i])])
      [] kind = "[]any" ->
            IF v.nil THEN JNull
            ELSE JArr([i \in 1..Len(v.elems) |-> AnyToJSON(v.elems[i])])
      [] kind = "any" -> AnyToJSON(v)
      [] kind = "map" ->
            IF v.nilmap THEN JNull
            ELSE JObj([k \in DOMAIN v.m |-> AnyToJSON(v.m[k])])

(* The fields of a struct value that reach the encoded object. *)
EncodedFields(schema, v) ==
    {i \in 1..Len(schema) :
        ~(schema[i].omitempty /\ IsEmptyValue(schema[i].kind, v[schema[i].name]))}

MarshalStruct(schema, v) ==
    LET kept == EncodedFields(schema, v)
        tags == {schema[i].tag : i \in kept}
        ok == \A i \in kept : Encodable(schema[i].kind, v[schema[i].name])
    IN  [ok |-> ok,
         json |-> IF ok
                  THEN JObj([t \in tags |->
                         LET f == FieldTagged(schema, t) IN ToJSON(f.kind, v[f.name])])
                  ELSE JNull]

(***************************************************************************)
(* What a caller hands doRequest as body: nil, a request struct, or a      *)
(* map[string]string.                                                      *)
(***************************************************************************)
NoPayload == [kind |-> "nil"]
StructPayload(T, v) == [kind |-> "struct", type |-> T, v |-> v]
MapPayload(m) == [kind |-> "map", m |-> m]

(***************************************************************************)
(* Bodies on the wire.                                                     *)
(***************************************************************************)
NoBytes == [w |-> "empty"]
NotJSON == [w |-> "malformed"]
JSONText(j) == [w |-> "json", v |-> j]

Marshal(payload) ==
    CASE payload.kind = "struct" ->
            LET r == MarshalStruct(SchemaOf(payload.type), payload.v)
            IN  [ok |-> r.ok, data |-> IF r.ok THEN JSONText(r.json) ELSE NoBytes]
      [] payload.kind = "map" ->
            [ok |-> TRUE,
             data |-> JSONText(JObj([k \in DOMAIN payload.m |-> JStr(payload.m[k])]))]

(***************************************************************************)
(* json.Decoder.Decode.  A JSON null leaves a scalar as it is and makes a  *)
(* pointer, slice, map or interface nil; a value of the wrong JSON type    *)
(* leaves the field as it is and is reported as an error once the rest of  *)
(* the value has been stored.                                              *)
(***************************************************************************)
RECURSIVE AnyFromJSON(_)
AnyFromJSON(j) ==
    CASE j.j = "null" -> AnyNil
      [] j.j = "num" -> AnyFloat(j.n)
      [] j.j = "str" -> AnyString(j.s)
      [] j.j = "bool" -> AnyBool(j.b)
      [] j.j = "arr" -> AnySlice([i \in 1..Len(j.a) |-> AnyFromJSON(j.a[i])])
      [] j.j = "obj" -> AnyMap([k \in DOMAIN j.o |-> AnyFromJSON(j.o[k])])

Stored(v) == [val |-> v, ok |-> TRUE]
Mismatch(old) == [val |-> old, ok |-> FALSE]

DecodeValue(kind, j, old) ==
    CASE kind = "any" -> Stored(AnyFromJSON(j))
      [] kind # "any" /\ j.j = "null" ->
            Stored(CASE kind \in {"int", "string", "bool"} -> old
                     [] kind \in {"*string", "*int", "*bool"} -> NilPtr
                     [] kind \in {"[]int", "[]string", "[]any"} -> NilSlice
                     [] kind = "map" -> NilMap)
      [] kind = "int" /\ j.j = "num" -> Stored(j.n)
      [] kind = "string" /\ j.j = "str" -> Stored(j.s)
      [] kind = "bool" /\ j.j = "bool" -> Stored(j.b)
      [] kind = "*int" /\ j.j = "num" -> Stored(Ptr(j.n))
      [] kind = "*string" /\ j.j = "str" -> Stored(Ptr(j.s))
      [] kind = "*bool" /\ j.j = "bool" -> Stored(Ptr(j.b))
      [] kind = "[]int" /\ j.j = "arr" ->
            [val |-> Slice([i \in 1..Len(j.a) |->
                        IF j.a[i].j = "num" THEN j.a[i].n ELSE 0]),
             ok |-> \A i \in 1..Len(j.a) : j.a[i].j \in {"num", "null"}]
      [] kind = "[]string" /\ j.j = "arr" ->
            [val |-> Slice([i \in 1..Len(j.a) |->
                        IF j.a[i].j = "str" THEN j.a[i].s ELSE ""]),
             ok |-> \A i \in 1..Len(j.a) : j.a[i].j \in {"str", "null"}]
      [] kind = "[]any" /\ j.j = "arr" ->
            Stored(Slice([i \in 1..Len(j.a) |-> AnyFromJSON(j.a[i])]))
      [] kind = "map" /\ j.j = "obj" ->
            Stored([nilmap |-> FALSE, m |-> [k \in DOMAIN j.o |-> AnyFromJSON(j.o[k])]])
      [] OTHER -> Mismatch(old)

DecodeStruct(schema, j, old) ==
    IF j.j = "null" THEN Stored(old)
    ELSE IF j.j # "obj" THEN Mismatch(old)
    ELSE LET dec(name) ==
                LET f == FieldOf(schema, name)
                IN  IF f.tag \in DOMAIN j.o
                    THEN DecodeValue(f.kind, j.o[f.tag], old[name])
                    ELSE Stored(old[name])
         IN  [val |-> [name \in FieldNames(schema) |-> dec(name).val],
              ok |-> \A name \in FieldNames(schema) : dec(name).ok]

(* The result types the operations decode into. *)
StructTypes == {"Pixel", "ShortLink", "ExpandResponse", "Stats", "Tag"}
SliceTypes == {"[]Pixel", "[]Tag"}
ElemType(T) == IF T = "[]Pixel" THEN "Pixel" ELSE "Tag"

ZeroValue(T) ==
    CASE T = "string" -> ""
      [] T \in SliceTypes -> NilSlice
      [] OTHER -> ZeroStruct(SchemaOf(T))

DecodeJSON(T, j, old) ==
    CASE T = "string" -> DecodeValue("string", j, old)
      [] T \in SliceTypes ->
            IF j.j = "null" THEN Stored(NilSlice)
            ELSE IF j.j # "arr" THEN Mismatch(old)
            ELSE LET el(i) == DecodeStruct(SchemaOf(ElemType(T)), j.a[i],
                                           ZeroStruct(SchemaOf(ElemType(T))))
                 IN  [val |-> Slice([i \in 1..Len(j.a) |-> el(i).val]),
                      ok |-> \A i \in 1..Len(j.a) : el(i).ok]
      [] OTHER -> DecodeStruct(SchemaOf(T), j, old)

(* Decode of a body: no bytes is io.EOF, bytes that are not JSON a syntax  *)
(* error, and neither stores anything.                                     *)
Decode(T, body, old) ==
    IF body.w = "json" THEN DecodeJSON(T, body.v, old) ELSE Mismatch(old)

(***************************************************************************)
(* Text helpers.  A text is a sequence of pieces; it is the empty string   *)
(* when every piece is.                                                    *)
(***************************************************************************)
IsEmptyText(t) == \A i \in 1..Len(t) : t[i] = ""

Digit(d) ==
    CASE d = 0 -> "0" [] d = 1 -> "1" [] d = 2 -> "2" [] d = 3 -> "3"
      [] d = 4 -> "4" [] d = 5 -> "5" [] d = 6 -> "6" [] d = 7 -> "7"
      [] d = 8 -> "8" [] d = 9 -> "9"

(* fmt's %d of an int. *)
RECURSIVE Itoa(_)
Itoa(n) ==
    IF n < 0 THEN "-" \o Itoa(-n)
    ELSE IF n < 10 THEN Digit(n)
    ELSE Itoa(n \div 10) \o Digit(n % 10)

(***************************************************************************)
(* Client and NewClient.                                                   *)
(***************************************************************************)
DefaultHTTPClient == [transport |-> "http.Client{}"]

(* NewClient, had it set another base address. *)
NewClientOtherHost(key) ==
    [APIKey |-> key, BaseURL |-> "https://t.ly", Client |-> DefaultHTTPClient]

NewClient(key) ==
    [APIKey |-> key, BaseURL |-> "https://api.t.ly", Client |-> DefaultHTTPClient]

(***************************************************************************)
(* Errors.                                                                 *)
(***************************************************************************)
NoErr == [e |-> "nil"]
MarshalErr == [e |-> "marshal"]
NewRequestErr == [e |-> "newrequest"]
TransportErr == [e |-> "transport"]
DecodeErr == [e |-> "decode"]
(* fmt.Errorf("API error: %s", string(data)) *)
APIError(data) == [e |-> "api", prefix |-> "API error: ", data |-> data]
LocalErrs == {MarshalErr, NewRequestErr}

(***************************************************************************)
(* doRequest up to and including c.Client.Do(req): URL, body buffer,       *)
(* request construction and the three headers.                             *)
(***************************************************************************)
BuildURL(c, path, query) ==
    <<c.BaseURL>> \o path \o (IF ~IsEmptyText(query) THEN <<"?">> \o query ELSE <<>>)

(* http.NewRequest refuses a URL that holds an ASCII control byte. *)
HasCTLByte(s) == s \in {"\n", "\t"}
URLParses(url) == \A i \in 1..Len(url) : ~HasCTLByte(url[i])

NoHeader == [k \in {} |-> <<>>]
HeaderSet(h, k, v) == [x \in DOMAIN h \cup {k} |-> IF x = k THEN v ELSE h[x]]

(* The three headers, had Authorization been the bare token. *)
SetHeadersRawToken(c, h) ==
    HeaderSet(HeaderSet(HeaderSet(h,
        "Authorization", <<c.APIKey>>),
        "Content-Type", <<"application/json">>),
        "Accept", <<"application/json">>)

SetHeaders(c, h) ==
    HeaderSet(HeaderSet(HeaderSet(h,
        "Authorization", <<"Bearer ", c.APIKey>>),
        "Content-Type", <<"application/json">>),
        "Accept", <<"application/json">>)

doRequestSend(c, method, path, query, payload) ==
    LET url == BuildURL(c, path, query)
        m == IF payload.kind # "nil" THEN Marshal(payload)
             ELSE [ok |-> TRUE, data |-> NoBytes]
    IN  IF ~m.ok THEN [send |-> FALSE, err |-> MarshalErr]
        ELSE IF ~URLParses(url) THEN [send |-> FALSE, err |-> NewRequestErr]
        ELSE [send |-> TRUE,
              req |-> [method |-> method, url |-> url, body |-> m.data,
                       header |-> SetHeaders(c, NoHeader)]]

(***************************************************************************)
(* doRequest after Do returned a response: classification by status code,  *)
(* the API error, the decode into the result slot.  rtype "none" is a nil  *)
(* result.  Yields the error and the value the result variable then holds. *)
(***************************************************************************)
StatusOKMin == 200
StatusOKEnd == 300

(* The status test, had it taken only 4xx and 5xx for failures. *)
IsFailureFrom400(status) == status >= 400

IsFailure(status) == status < StatusOKMin \/ status >= StatusOKEnd

APIErrorOf(resp) == APIError(resp.body)

(* doRequest after Do, had it never decoded the body. *)
doRequestReceiveNoDecode(resp, rtype, old) ==
    IF IsFailure(resp.status) THEN [err |-> APIErrorOf(resp), slot |-> old]
    ELSE [err |-> NoErr, slot |-> old]

doRequestReceive(resp, rtype, old) ==
    IF IsFailure(resp.status) THEN [err |-> APIErrorOf(resp), slot |-> old]
    ELSE IF rtype # "none"
         THEN LET d == Decode(rtype, resp.body, old)
              IN  [err |-> IF d.ok THEN NoErr ELSE DecodeErr, slot |-> d.val]
         ELSE [err |-> NoErr, slot |-> old]

(***************************************************************************)
(* What an operation returns once doRequest has returned err: the pointer  *)
(* operations, the slice operations, the string operations, the deletes.   *)
(***************************************************************************)
NilResult == [k |-> "nil"]
PtrTo(addr) == [k |-> "ptr", addr |-> addr]
NoResult == [k |-> "none"]
StrResult(s) == [k |-> "string", s |-> s]
SliceResult(v) == [k |-> "slice", v |-> v]

(* A pointer operation, had it returned &x beside the error. *)
ReturnPtrAlways(addr, err) == [result |-> PtrTo(addr), err |-> err]

ReturnPtr(addr, err) ==
    IF err # NoErr THEN [result |-> NilResult, err |-> err]
    ELSE [result |-> PtrTo(addr), err |-> NoErr]

ReturnSlice(v, err) ==
    IF err # NoErr THEN [result |-> SliceResult(NilSlice), err |-> err]
    ELSE [result |-> SliceResult(v), err |-> NoErr]

ReturnString(v, err) ==
    IF err # NoErr THEN [result |-> StrResult(""), err |-> err]
    ELSE [result |-> StrResult(v), err |-> NoErr]

ReturnErr(err) == [result |-> NoResult, err |-> err]

PtrOps == {"CreatePixel", "GetPixel", "UpdatePixel", "CreateShortLink",
           "GetShortLink", "UpdateShortLink", "ExpandShortLink", "GetStats",
           "CreateTag", "GetTag", "UpdateTag"}
SliceOps == {"ListPixels", "ListTags"}
StringOps == {"ListShortLinks", "BulkShortenLinks"}
DeleteOps == {"DeletePixel", "DeleteShortLink", "DeleteTag"}

Return(op, addr, slot, err) ==
    CASE op \in PtrOps -> ReturnPtr(addr, err)
      [] op \in SliceOps -> ReturnSlice(slot, err)
      [] op \in StringOps -> ReturnString(slot, err)
      [] op \in DeleteOps -> ReturnErr(err)

(***************************************************************************)
(* State.                                                                  *)
(*   client  the *Client that NewClient(apiKey) returned                   *)
(*   apiKey  the argument NewClient was called with                        *)
(*   frame   per goroutine, the call it is in: the operation and its       *)
(*           arguments, the request handed to the transport, how often     *)
(*           Do was called, the response, and what the call returned       *)
(*   mem     per goroutine, the result variable of its call (var pixel     *)
(*           Pixel, var result string, ...), which a returned pointer      *)
(*           points to                                                     *)
(*   codec   a payload on its way through json.Marshal and back            *)
(***************************************************************************)
VARIABLES client, apiKey, frame, mem, codec

vars == <<client, apiKey, frame, mem, codec>>

Procs == {1, 2}
APIKeys == {"YOUR_API_TOKEN", ""}

NoRequest == [method |-> "", url |-> <<>>, body |-> NoBytes, header |-> NoHeader]
NoResponse == [status |-> 0, body |-> NoBytes]
NoReturn == [result |-> NoResult, err |-> NoErr]
NoArgs == [x \in {} |-> 0]
Unallocated == [free |-> TRUE]

IdleFrame ==
    [pc |-> "idle", op |-> "", args |-> NoArgs, rtype |-> "none",
     req |-> NoRequest, sent |-> 0, resp |-> NoResponse, ret |-> NoReturn]

CodecIdle == [pc |-> "idle"]

(* The result variable, had it been one variable shared by all calls. *)
SlotOfShared(p) == 1

(* Each call has its own result variable. *)
SlotOf(p) == p

Finish(f, addr, slot, err) ==
    [f EXCEPT !.pc = "done", !.ret = Return(f.op, addr, slot, err)]

(* The error branch after Do, had it sent the request again. *)
OnDoErrorRetry(f, addr, slot) ==
    IF f.sent < 2 THEN [f EXCEPT !.sent = @ + 1]
    ELSE Finish(f, addr, slot, TransportErr)

(* c.Client.Do returned an error: doRequest returns it. *)
OnDoError(f, addr, slot) == Finish(f, addr, slot, TransportErr)

(***************************************************************************)
(* A resource operation from its call to the return of c.Client.Do's       *)
(* caller: either a local error ends the call, or the request is in flight.*)
(***************************************************************************)
Call(p, op, args, method, path, query, payload, rtype) ==
    /\ LET s == doRequestSend(client, method, path, query, payload)
           addr == SlotOf(p)
           zero == IF rtype = "none" THEN Unallocated ELSE ZeroValue(rtype)
           f == [pc |-> "inflight", op |-> op, args |-> args, rtype |-> rtype,
                 req |-> NoRequest, sent |-> 0, resp |-> NoResponse, ret |-> NoReturn]
       IN  /\ mem' = [mem EXCEPT ![addr] = zero]
           /\ frame' = [frame EXCEPT ![p] =
                  IF s.send THEN [f EXCEPT !.req = s.req, !.sent = 1]
                  ELSE Finish(f, addr, zero, s.err)]
    /\ UNCHANGED <<client, apiKey, codec>>

(***************************************************************************)
(* The transport: Do returns a response, or an error.                      *)
(***************************************************************************)
Respond(p, status, body) ==
    /\ frame[p].pc = "inflight"
    /\ LET f == frame[p]
           addr == SlotOf(p)
           resp == [status |-> status, body |-> body]
           r == doRequestReceive(resp, f.rtype, mem[addr])
       IN  /\ mem' = [mem EXCEPT ![addr] = r.slot]
           /\ frame' = [frame EXCEPT ![p] =
                  Finish([f EXCEPT !.resp = resp], addr, r.slot, r.err)]
    /\ UNCHANGED <<client, apiKey, codec>>

TransportError(p) ==
    /\ frame[p].pc = "inflight"
    /\ frame' = [frame EXCEPT ![p] = OnDoError(frame[p], SlotOf(p), mem[SlotOf(p)])]
    /\ UNCHANGED <<client, apiKey, mem, codec>>

(* The caller has taken what the call returned; the call's frame is gone. *)
Returned(p) ==
    /\ frame[p].pc = "done"
    /\ frame' = [frame EXCEPT ![p] = IdleFrame]
    /\ mem' = [mem EXCEPT ![SlotOf(p)] = Unallocated]
    /\ UNCHANGED <<client, apiKey, codec>>

(***************************************************************************)
(* The inputs the callers draw from.                                       *)
(***************************************************************************)
Ids == (-1)..MaxId
ShortURLs == {"https://t.ly/c55j", "", "\n"}
TagValues == {"fall2024", ""}

PixelCreateSamples ==
    { [Name |-> "GTMPixel", PixelID |-> "GTM-xxxx", PixelType |-> "googleTagManager"],
      ZeroStruct(PixelCreateRequest) }

PixelUpdateSamples ==
    { [ID |-> id, Name |-> "UpdatedPixel", PixelID |-> "GTM-xxxx",
       PixelType |-> "googleTagManager"] : id \in Ids }

ShortLinkCreateSample ==
    [ZeroStruct(ShortLinkCreateRequest) EXCEPT
        !.LongURL = "http://example.com/", !.Domain = "https://t.ly/"]

ShortLinkCreateSamples ==
    { ShortLinkCreateSample,
      [ShortLinkCreateSample EXCEPT !.Tags = Slice(<<>>)],
      [ShortLinkCreateSample EXCEPT !.Meta = AnyChan],
      [ShortLinkCreateSample EXCEPT
          !.ShortID = Ptr("c55j"), !.ExpireAtViews = Ptr(0),
          !.PublicStats = Ptr(FALSE), !.Tags = Slice(<<1>>),
          !.Meta = AnyString("m")] }

ShortLinkUpdateSample ==
    [ZeroStruct(ShortLinkUpdateRequest) EXCEPT
        !.ShortURL = "https://t.ly/c55j", !.LongURL = "http://updated-example.com/"]

ShortLinkUpdateSamples ==
    { ShortLinkUpdateSample,
      [ShortLinkUpdateSample EXCEPT !.Tags = Slice(<<>>), !.Password = Ptr("")],
      [ShortLinkUpdateSample EXCEPT !.Meta = AnyChan] }

ExpandSamples ==
    { [ShortURL |-> "https://t.ly/OYXL", Password |-> NilPtr],
      [ShortURL |-> "https://t.ly/OYXL", Password |-> Ptr("")] }

BulkSamples ==
    { [Domain |-> "https://t.ly/",
       Links |-> Slice(<<"http://example1.com", "http://example2.com">>),
       Tags |-> NilSlice, Pixels |-> NilSlice],
      ZeroStruct(BulkShortenRequest) }

ParamKeys == {"search", "tag_ids", "pixel_ids"}
ParamVals == {"amazon", "1"}
ParamMaps ==
    UNION { [D -> ParamVals] : D \in {E \in SUBSET ParamKeys : Cardinality(E) <= MaxParams} }

(* The orders in which `range` may visit the keys of a map. *)
Orders(S) ==
    { o \in [1..Cardinality(S) -> S] : \A i, k \in 1..Cardinality(S) : o[i] = o[k] => i = k }

(***************************************************************************)
(* ListShortLinks' loop over the map, in the order `range` yields it.      *)
(***************************************************************************)
(* The loop, had it not tested `first`. *)
RECURSIVE QueryLoopNoFirst(_, _, _, _)
QueryLoopNoFirst(order, queryParams, query, first) ==
    IF order = <<>> THEN query
    ELSE LET k == Head(order)
         IN  QueryLoopNoFirst(Tail(order), queryParams,
                 query \o <<"&">> \o <<k, "=", queryParams[k]>>, FALSE)

RECURSIVE QueryLoop(_, _, _, _)
QueryLoop(order, queryParams, query, first) ==
    IF order = <<>> THEN query
    ELSE LET k == Head(order)
             sep == IF ~first THEN query \o <<"&">> ELSE query
         IN  QueryLoop(Tail(order), queryParams,
                 sep \o <<k, "=", queryParams[k]>>, FALSE)

(***************************************************************************)
(* The resource operations.                                                *)
(***************************************************************************)
CreatePixel(p, reqData) ==
    /\ frame[p].pc = "idle"
    /\ Call(p, "CreatePixel", [reqData |-> reqData], "POST", <<"/api/v1/link/pixel">>,
             <<>>, StructPayload("PixelCreateRequest", reqData), "Pixel")

ListPixels(p) ==
    /\ frame[p].pc = "idle"
    /\ Call(p, "ListPixels", NoArgs, "GET", <<"/api/v1/link/pixel">>, <<>>,
             NoPayload, "[]Pixel")

PixelPath(id) == <<"/api/v1/link/pixel/", Itoa(id)>>

GetPixel(p, id) ==
    /\ frame[p].pc = "idle"
    /\ Call(p, "GetPixel", [id |-> id], "GET", PixelPath(id), <<>>, NoPayload, "Pixel")

UpdatePixel(p, reqData) ==
    /\ frame[p].pc = "idle"
    /\ Call(p, "UpdatePixel", [reqData |-> reqData], "PUT", PixelPath(reqData.ID), <<>>,
             StructPayload("PixelUpdateRequest", reqData), "Pixel")

DeletePixel(p, id) ==
    /\ frame[p].pc = "idle"
    /\ Call(p, "DeletePixel", [id |-> id], "DELETE", PixelPath(id), <<>>, NoPayload, "none")

CreateShortLink(p, reqData) ==
    /\ frame[p].pc = "idle"
    /\ Call(p, "CreateShortLink", [reqData |-> reqData], "POST", <<"/api/v1/link/shorten">>,
             <<>>, StructPayload("ShortLinkCreateRequest", reqData), "ShortLink")

GetShortLink(p, shortURL) ==
    /\ frame[p].pc = "idle"
    /\ Call(p, "GetShortLink", [shortURL |-> shortURL], "GET", <<"/api/v1/link">>,
             <<"short_url=", shortURL>>, NoPayload, "ShortLink")

UpdateShortLink(p, reqData) ==
    /\ frame[p].pc = "idle"
    /\ Call(p, "UpdateShortLink", [reqData |-> reqData], "PUT", <<"/api/v1/link">>, <<>>,
             StructPayload("ShortLinkUpdateRequest", reqData), "ShortLink")

(* DeleteShortLink, had it passed nil as body. *)
DeleteShortLinkNoBody(shortURL) == NoPayload

DeleteShortLinkBody(shortURL) == MapPayload([short_url |-> shortURL])

DeleteShortLink(p, shortURL) ==
    /\ frame[p].pc = "idle"
    /\ Call(p, "DeleteShortLink", [shortURL |-> shortURL], "DELETE", <<"/api/v1/link">>,
             <<>>, DeleteShortLinkBody(shortURL), "none")

ExpandShortLink(p, reqData) ==
    /\ frame[p].pc = "idle"
    /\ Call(p, "ExpandShortLink", [reqData |-> reqData], "POST", <<"/api/v1/link/expand">>,
             <<>>, StructPayload("ExpandRequest", reqData), "ExpandResponse")

ListShortLinks(p, queryParams, order) ==
    /\ frame[p].pc = "idle"
    /\ Call(p, "ListShortLinks", [queryParams |-> queryParams], "GET",
             <<"/api/v1/link/list">>, QueryLoop(order, queryParams, <<>>, TRUE),
             NoPayload, "string")

BulkShortenLinks(p, reqData) ==
    /\ frame[p].pc = "idle"
    /\ Call(p, "BulkShortenLinks", [reqData |-> reqData], "POST", <<"/api/v1/link/bulk">>,
             <<>>, StructPayload("BulkShortenRequest", reqData), "string")

GetStats(p, shortURL) ==
    /\ frame[p].pc = "idle"
    /\ Call(p, "GetStats", [shortURL |-> shortURL], "GET", <<"/api/v1/link/stats">>,
             <<"short_url=", shortURL>>, NoPayload, "Stats")

ListTags(p) ==
    /\ frame[p].pc = "idle"
    /\ Call(p, "ListTags", NoArgs, "GET", <<"/api/v1/link/tag">>, <<>>, NoPayload, "[]Tag")

CreateTag(p, tagValue) ==
    /\ frame[p].pc = "idle"
    /\ Call(p, "CreateTag", [tagValue |-> tagValue], "POST", <<"/api/v1/link/tag">>, <<>>,
             MapPayload([tag |-> tagValue]), "Tag")

TagPath(id) == <<"/api/v1/link/tag/", Itoa(id)>>

GetTag(p, id) ==
    /\ frame[p].pc = "idle"
    /\ Call(p, "GetTag", [id |-> id], "GET", TagPath(id), <<>>, NoPayload, "Tag")

UpdateTag(p, id, tagValue) ==
    /\ frame[p].pc = "idle"
    /\ Call(p, "UpdateTag", [id |-> id, tagValue |-> tagValue], "PUT", TagPath(id), <<>>,
             MapPayload([tag |-> tagValue]), "Tag")

DeleteTag(p, id) ==
    /\ frame[p].pc = "idle"
    /\ Call(p, "DeleteTag", [id |-> id], "DELETE", TagPath(id), <<>>, NoPayload, "none")

(***************************************************************************)
(* The responses the remote service may give.                              *)
(***************************************************************************)
Statuses == {199, 200, 299, 300, 404}

TagJSON(id, tag) ==
    JObj([id |-> JNum(id), tag |-> JStr(tag), created_at |-> JStr("2024-01-01"),
          updated_at |-> JStr("2024-01-01")])

PixelJSON(id) ==
    JObj([id |-> JNum(id), name |-> JStr("GTMPixel"), pixel_id |-> JStr("GTM-xxxx"),
          pixel_type |-> JStr("googleTagManager"), created_at |-> JStr("2024-01-01"),
          updated_at |-> JStr("2024-01-02")])

ShortLinkJSON ==
    JObj([short_url |-> JStr("https://t.ly/c55j"), description |-> JStr("d"),
          long_url |-> JStr("http://example.com/"), domain |-> JStr("https://t.ly/"),
          short_id |-> JStr("c55j"), expire_at_views |-> JNum(5),
          expire_at_datetime |-> JNull, public_stats |-> JBool(TRUE),
          created_at |-> JStr("2024-01-01"), updated_at |-> JStr("2024-01-02"),
          meta |-> JObj([k \in {"a"} |-> JNum(1)])])

ExpandJSON == JObj([long_url |-> JStr("http://example.com/"), expired |-> JBool(TRUE)])

StatsJSON ==
    JObj([clicks |-> JNum(7), unique_clicks |-> JNum(3),
          browsers |-> JArr(<<JStr("firefox")>>), countries |-> JArr(<<>>),
          referrers |-> JArr(<<JNull>>), platforms |-> JArr(<<JNum(1)>>),
          daily_clicks |-> JArr(<<JBool(TRUE)>>),
          data |-> JObj([k \in {"x"} |-> JStr("y")])])

NotFoundJSON == JObj([message |-> JStr("not found")])

(* An id of the wrong JSON type beside a tag of the right one. *)
BadTagJSON == JObj([id |-> JStr("x"), tag |-> JStr("fall2024")])

ResponseBodies ==
    { NoBytes, NotJSON, JSONText(JNull), JSONText(NotFoundJSON),
      JSONText(TagJSON(1, "fall2024")), JSONText(BadTagJSON),
      JSONText(PixelJSON(1)), JSONText(PixelJSON(2)),
      JSONText(ShortLinkJSON), JSONText(ExpandJSON), JSONText(StatsJSON),
      JSONText(JStr("[{\"short_url\":\"https://t.ly/c55j\"}]")),
      JSONText(JArr(<<PixelJSON(1), PixelJSON(2)>>)),
      JSONText(JArr(<<TagJSON(1, "fall2024")>>)),
      JSONText(JArr(<<>>)) }

(***************************************************************************)
(* The specifications.  Spec: one goroutine calls the operations one after *)
(* the other.  SpecConc: two goroutines share the Client and call GetPixel *)
(* at the same time.                                                       *)
(***************************************************************************)
Init ==
    /\ apiKey \in APIKeys
    /\ client = NewClient(apiKey)
    /\ frame = [p \in Procs |-> IdleFrame]
    /\ mem = [a \in Procs |-> Unallocated]
    /\ codec = CodecIdle

Next ==
    \E p \in {1} :
        \/ \E r \in PixelCreateSamples : CreatePixel(p, r)
        \/ ListPixels(p)
        \/ \E id \in Ids : GetPixel(p, id)
        \/ \E r \in PixelUpdateSamples : UpdatePixel(p, r)
        \/ \E id \in Ids : DeletePixel(p, id)
        \/ \E r \in ShortLinkCreateSamples : CreateShortLink(p, r)
        \/ \E u \in ShortURLs : GetShortLink(p, u)
        \/ \E r \in ShortLinkUpdateSamples : UpdateShortLink(p, r)
        \/ \E u \in ShortURLs : DeleteShortLink(p, u)
        \/ \E r \in ExpandSamples : ExpandShortLink(p, r)
        \/ \E m \in ParamMaps : \E o \in Orders(DOMAIN m) : ListShortLinks(p, m, o)
        \/ \E r \in BulkSamples : BulkShortenLinks(p, r)
        \/ \E u \in ShortURLs : GetStats(p, u)
        \/ ListTags(p)
        \/ \E t \in TagValues : CreateTag(p, t)
        \/ \E id \in Ids : GetTag(p, id)
        \/ \E id \in Ids : \E t \in TagValues : UpdateTag(p, id, t)
        \/ \E id \in Ids : DeleteTag(p, id)
        \/ \E st \in Statuses : \E b \in ResponseBodies : Respond(p, st, b)
        \/ TransportError(p)
        \/ Returned(p)

Spec == Init /\ [][Next]_vars

ConcStatuses == {200, 404}
ConcBodies == {JSONText(PixelJSON(1)), JSONText(PixelJSON(2)), JSONText(NotFoundJSON), NotJSON}

NextConc ==
    \E p \in Procs :
        \/ \E id \in Ids : GetPixel(p, id)
        \/ \E st \in ConcStatuses : \E b \in ConcBodies : Respond(p, st, b)
        \/ TransportError(p)
        \/ Returned(p)

SpecConc == Init /\ [][NextConc]_vars

(***************************************************************************)
(* A payload on its way through json.Marshal and back: the caller sets     *)
(* fields of a request struct, doRequest marshals it, and the body is      *)
(* decoded into a fresh struct of the same type.                           *)
(***************************************************************************)
(* MaxFieldsSet bounds how many fields the caller sets to a non-zero value. *)
(* Meta is given the dynamic types a JSON decoder itself yields.           *)
MaxFieldsSet == 3

PayloadTypes == {"ShortLinkCreateRequest", "ShortLinkUpdateRequest", "PixelCreateRequest",
                 "PixelUpdateRequest", "ExpandRequest", "BulkShortenRequest"}

ValuesOf(kind) ==
    CASE kind = "int" -> {0, 1}
      [] kind = "string" -> {"", "s"}
      [] kind = "bool" -> {FALSE, TRUE}
      [] kind = "*string" -> {NilPtr, Ptr(""), Ptr("s")}
      [] kind = "*int" -> {NilPtr, Ptr(0), Ptr(1)}
      [] kind = "*bool" -> {NilPtr, Ptr(FALSE), Ptr(TRUE)}
      [] kind = "[]int" -> {NilSlice, Slice(<<>>), Slice(<<1>>)}
      [] kind = "[]string" -> {NilSlice, Slice(<<>>), Slice(<<"http://example1.com">>)}
      [] kind = "any" -> {AnyNil, AnyString("m"), AnyFloat(0), AnyBool(FALSE)}

FieldsSet(schema, v) ==
    {i \in 1..Len(schema) : v[schema[i].name] # ZeroOf(schema[i].kind)}

InitCodec ==
    /\ apiKey \in APIKeys
    /\ client = NewClient(apiKey)
    /\ frame = [p \in Procs |-> IdleFrame]
    /\ mem = [a \in Procs |-> Unallocated]
    /\ \E T \in PayloadTypes :
          codec = [pc |-> "build", type |-> T, input |-> ZeroStruct(SchemaOf(T)),
                   wire |-> NoBytes, output |-> ZeroStruct(SchemaOf(T))]

SetField(i) ==
    /\ codec.pc = "build"
    /\ LET f == SchemaOf(codec.type)[i]
       IN  /\ codec.input[f.name] = ZeroOf(f.kind)
           /\ Cardinality(FieldsSet(SchemaOf(codec.type), codec.input)) < MaxFieldsSet
           /\ \E v \in ValuesOf(f.kind) \ {ZeroOf(f.kind)} :
                 codec' = [codec EXCEPT !.input[f.name] = v]
    /\ UNCHANGED <<client, apiKey, frame, mem>>

Encode ==
    /\ codec.pc = "build"
    /\ LET m == Marshal(StructPayload(codec.type, codec.input))
       IN  /\ m.ok
           /\ codec' = [codec EXCEPT !.pc = "encoded", !.wire = m.data]
    /\ UNCHANGED <<client, apiKey, frame, mem>>

DecodeBack ==
    /\ codec.pc = "encoded"
    /\ codec' = [codec EXCEPT !.pc = "decoded",
                    !.output = Decode(codec.type, codec.wire,
                                      ZeroStruct(SchemaOf(codec.type))).val]
    /\ UNCHANGED <<client, apiKey, frame, mem>>

NextCodec ==
    \/ \E i \in 1..Len(SchemaOf(codec.type)) : SetField(i)
    \/ Encode
    \/ DecodeBack

SpecCodec == InitCodec /\ [][NextCodec]_vars

(***************************************************************************)
(* Vocabulary of the properties.                                           *)
(***************************************************************************)
Done(p) == frame[p].pc = "done"
(* Do returned a response (and not an error). *)
Responded(p) == Done(p) /\ frame[p].resp.status # 0
Success(p) == Responded(p) /\ frame[p].resp.status >= 200 /\ frame[p].resp.status < 300
Failure(p) == Responded(p) /\ ~(frame[p].resp.status >= 200 /\ frame[p].resp.status < 300)
(* What a returned pointer points to. *)
Deref(result) == mem[result.addr]
EmptyResults == {NilResult, NoResult, StrResult(""), SliceResult(NilSlice)}

(***************************************************************************)
(* C1, as the claim states it: every call of an operation hands its        *)
(* request to the transport exactly once, whatever its outcome.            *)
(***************************************************************************)
C1_ExactlyOncePerCall ==
    \A p \in Procs : Done(p) => frame[p].sent = 1

(***************************************************************************)
(* C1, amended: no call hands a request to the transport more than once;   *)
(* a call that fails locally (json.Marshal or http.NewRequest returns an   *)
(* error) hands it over zero times, every other call exactly once.         *)
(***************************************************************************)
C1_AtMostOncePerCall ==
    \A p \in Procs :
        /\ frame[p].sent <= 1
        /\ frame[p].pc = "inflight" => frame[p].sent = 1
        /\ Done(p) => (frame[p].sent = 0 <=> frame[p].ret.err \in LocalErrs)

C1_Witness ==
    \E p \in Procs :
        /\ Done(p) /\ frame[p].ret.err = TransportErr /\ frame[p].sent = 1

(***************************************************************************)
(* C2: a response with a status code outside [200, 300) makes the          *)
(* operation return no result and the error "API error: " followed by the  *)
(* response body, and nothing is decoded into the result variable.         *)
(***************************************************************************)
C2_FailureStatusIsAPIError ==
    \A p \in Procs :
        Failure(p) =>
            /\ frame[p].ret.err = [e |-> "api", prefix |-> "API error: ",
                                   data |-> frame[p].resp.body]
            /\ frame[p].ret.result \in EmptyResults
            /\ frame[p].rtype # "none" => mem[p] = ZeroValue(frame[p].rtype)

C2_Witness ==
    \E p \in Procs :
        /\ Failure(p) /\ frame[p].op = "GetTag"
        /\ frame[p].resp = [status |-> 404, body |-> JSONText(NotFoundJSON)]
        /\ frame[p].ret.err.data = JSONText(NotFoundJSON)

(***************************************************************************)
(* C3: of two GetPixel calls that share the Client, each sends a GET for   *)
(* the path of its own id, and the pointer each returns points to a Pixel  *)
(* of its own, holding what the response to its own request decodes to.    *)
(***************************************************************************)
DecimalText == (-1 :> "-1") @@ (0 :> "0") @@ (1 :> "1") @@ (2 :> "2") @@ (3 :> "3")

C3_ConcurrentCallsDoNotInterfere ==
    \A p \in Procs :
        /\ frame[p].sent > 0 =>
              /\ frame[p].req.method = "GET"
              /\ frame[p].req.url =
                    <<"https://api.t.ly", "/api/v1/link/pixel/", DecimalText[frame[p].args.id]>>
        /\ (Done(p) /\ frame[p].ret.err = NoErr) =>
              /\ frame[p].ret.result.k = "ptr"
              /\ \A q \in Procs \ {p} :
                    (Done(q) /\ frame[q].ret.err = NoErr) =>
                        frame[q].ret.result.addr # frame[p].ret.result.addr
              /\ \A i \in 1..2 :
                    frame[p].resp.body = JSONText(PixelJSON(i)) =>
                        /\ Deref(frame[p].ret.result).ID = i
                        /\ Deref(frame[p].ret.result).UpdatedAt = "2024-01-02"

C3_Witness ==
    /\ Done(1) /\ Done(2)
    /\ frame[1].args.id = 1 /\ frame[2].args.id = 2
    /\ frame[1].resp = [status |-> 200, body |-> JSONText(PixelJSON(1))]
    /\ frame[2].resp = [status |-> 200, body |-> JSONText(PixelJSON(2))]
    /\ Deref(frame[1].ret.result).ID = 1
    /\ Deref(frame[2].ret.result).ID = 2

(***************************************************************************)
(* C4: a 2xx response whose body is well-formed JSON of the shape of the   *)
(* operation's result type makes the operation return a nil error and a    *)
(* result whose fields are those of the body.                              *)
(***************************************************************************)
JSONTypeFits(kind, j) ==
    CASE kind = "int" -> j.j = "num"
      [] kind = "string" -> j.j = "str"
      [] kind = "bool" -> j.j = "bool"
      [] kind = "[]any" -> j.j = "arr"
      [] kind = "map" -> j.j = "obj"
      [] kind = "any" -> TRUE

ObjectFits(schema, j) ==
    /\ j.j = "obj"
    /\ DOMAIN j.o = TagNames(schema)
    /\ \A i \in 1..Len(schema) : JSONTypeFits(schema[i].kind, j.o[schema[i].tag])

BodyFits(T, body) ==
    /\ body.w = "json"
    /\ CASE T = "string" -> body.v.j = "str"
         [] T \in SliceTypes ->
               /\ body.v.j = "arr"
               /\ \A i \in 1..Len(body.v.a) : ObjectFits(SchemaOf(ElemType(T)), body.v.a[i])
         [] OTHER -> ObjectFits(SchemaOf(T), body.v)

(* The Go value a JSON value of the fitting type stands for. *)
GoValueOf(kind, j) ==
    CASE kind = "int" -> j.n
      [] kind = "string" -> j.s
      [] kind = "bool" -> j.b
      [] kind = "any" -> AnyFromJSON(j)
      [] kind = "[]any" -> Slice([i \in 1..Len(j.a) |-> AnyFromJSON(j.a[i])])
      [] kind = "map" -> [nilmap |-> FALSE, m |-> [k \in DOMAIN j.o |-> AnyFromJSON(j.o[k])]]

FieldsAreThoseOf(schema, v, j) ==
    \A i \in 1..Len(schema) :
        v[schema[i].name] = GoValueOf(schema[i].kind, j.o[schema[i].tag])

C4_SuccessReturnsTheBody ==
    \A p \in Procs :
        (Success(p) /\ frame[p].rtype # "none" /\ BodyFits(frame[p].rtype, frame[p].resp.body)) =>
            LET T == frame[p].rtype
                j == frame[p].resp.body.v
                r == frame[p].ret.result
            IN  /\ frame[p].ret.err = NoErr
                /\ CASE T = "string" -> r = StrResult(j.s)
                     [] T \in SliceTypes ->
                           /\ r.k = "slice" /\ ~r.v.nil
                           /\ Len(r.v.elems) = Len(j.a)
                           /\ \A i \in 1..Len(j.a) :
                                 FieldsAreThoseOf(SchemaOf(ElemType(T)), r.v.elems[i], j.a[i])
                     [] OTHER ->
                           /\ r.k = "ptr"
                           /\ FieldsAreThoseOf(SchemaOf(T), Deref(r), j)

C4_Witness ==
    \E p \in Procs :
        /\ Success(p) /\ frame[p].op = "CreateTag"
        /\ frame[p].resp = [status |-> 200, body |-> JSONText(TagJSON(1, "fall2024"))]
        /\ frame[p].ret.err = NoErr
        /\ Deref(frame[p].ret.result).Tag = "fall2024"
        /\ Deref(frame[p].ret.result).ID = 1

(***************************************************************************)
(* C5, as the claim states it: every delete operation sends a DELETE       *)
(* request with an empty body and, on a 2xx response, returns a nil error  *)
(* and no result, whatever the response body.                              *)
(***************************************************************************)
DeleteReturnsNil(p) ==
    Success(p) => frame[p].ret = [result |-> NoResult, err |-> NoErr]

C5_DeleteSendsEmptyBody ==
    \A p \in Procs :
        (frame[p].op \in DeleteOps /\ frame[p].sent > 0) =>
            /\ frame[p].req.method = "DELETE"
            /\ frame[p].req.body = NoBytes
            /\ DeleteReturnsNil(p)

(***************************************************************************)
(* C5, amended: DeletePixel and DeleteTag send a DELETE request with an    *)
(* empty body; DeleteShortLink sends a DELETE request whose body is the    *)
(* JSON object {"short_url": shortURL}; each returns a nil error and no    *)
(* result on a 2xx response, whatever the response body.                   *)
(***************************************************************************)
C5_DeleteBodies ==
    \A p \in Procs :
        (frame[p].op \in DeleteOps /\ frame[p].sent > 0) =>
            /\ frame[p].req.method = "DELETE"
            /\ frame[p].op \in {"DeletePixel", "DeleteTag"} => frame[p].req.body = NoBytes
            /\ frame[p].op = "DeleteShortLink" =>
                  frame[p].req.body =
                      JSONText(JObj([short_url |-> JStr(frame[p].args.shortURL)]))
            /\ DeleteReturnsNil(p)

C5_Witness ==
    \E p \in Procs :
        /\ Success(p) /\ frame[p].op = "DeleteShortLink"
        /\ frame[p].args.shortURL = "https://t.ly/c55j"
        /\ frame[p].resp.body = NotJSON
        /\ frame[p].ret.err = NoErr

(***************************************************************************)
(* C6: every request handed to the transport carries exactly the headers   *)
(* Authorization: "Bearer " followed by the client's token, Content-Type:  *)
(* application/json and Accept: application/json, whatever the method, the *)
(* path, the payload and the result type.                                  *)
(***************************************************************************)
C6_ThreeHeaders ==
    \A p \in Procs :
        frame[p].sent > 0 =>
            /\ DOMAIN frame[p].req.header = {"Authorization", "Content-Type", "Accept"}
            /\ frame[p].req.header["Authorization"] = <<"Bearer ", apiKey>>
            /\ frame[p].req.header["Content-Type"] = <<"application/json">>
            /\ frame[p].req.header["Accept"] = <<"application/json">>

C6_Witness ==
    \E p \in Procs :
        /\ frame[p].pc = "inflight" /\ frame[p].op = "DeleteTag"
        /\ frame[p].req.body = NoBytes /\ frame[p].rtype = "none"
        /\ frame[p].req.header["Authorization"] = <<"Bearer ", "YOUR_API_TOKEN">>

(***************************************************************************)
(* C7: whatever calls were made and however they ended, the Client holds   *)
(* what NewClient put there (the given key, https://api.t.ly, the          *)
(* transport handle), and a goroutine that is not in a call holds nothing  *)
(* of its earlier calls.                                                   *)
(***************************************************************************)
C7_ClientUnchanged ==
    /\ client = [APIKey |-> apiKey, BaseURL |-> "https://api.t.ly",
                 Client |-> [transport |-> "http.Client{}"]]
    /\ \A p \in Procs :
          frame[p].pc = "idle" => (frame[p] = IdleFrame /\ mem[p] = Unallocated)

C7_Witness ==
    \E p \in Procs :
        /\ Done(p) /\ frame[p].ret.err = DecodeErr
        /\ client.APIKey = "YOUR_API_TOKEN"

(***************************************************************************)
(* C8, as the claim states it: the body json.Marshal makes of a request    *)
(* struct decodes to a struct equal to the input field for field, and a    *)
(* field tagged omitempty is left out of the body exactly when it is unset *)
(* (a nil pointer, a nil slice, a nil interface) in the input.             *)
(***************************************************************************)
Unset(kind, v) ==
    CASE kind \in {"*string", "*int", "*bool"} -> v = NilPtr
      [] kind \in {"[]int", "[]string"} -> v.nil
      [] kind = "any" -> v = AnyNil

C8_PayloadRoundTrips ==
    LET schema == SchemaOf(codec.type)
    IN  /\ codec.pc \in {"encoded", "decoded"} =>
              \A i \in 1..Len(schema) :
                  schema[i].omitempty =>
                      (schema[i].tag \notin DOMAIN codec.wire.v.o
                          <=> Unset(schema[i].kind, codec.input[schema[i].name]))
        /\ codec.pc = "decoded" => codec.output = codec.input

(***************************************************************************)
(* C9: ListShortLinks sends GET /api/v1/link/list; the URL has no "?" when *)
(* the map is empty, and otherwise a "?" followed by the entries of the    *)
(* map as key=value, each once, in some order, with one "&" between two    *)
(* entries and none before the first or after the last; on a 2xx response  *)
(* whose body is a JSON string it returns that string.                     *)
(***************************************************************************)
EntriesJoined(q, m) ==
    LET n == Cardinality(DOMAIN m)
    IN  /\ Len(q) = 4 * n - 1
        /\ \A i \in 1..n :
              /\ q[4 * i - 3] \in DOMAIN m
              /\ q[4 * i - 2] = "="
              /\ q[4 * i - 1] = m[q[4 * i - 3]]
              /\ i < n => q[4 * i] = "&"
              /\ \A k \in 1..n : q[4 * k - 3] = q[4 * i - 3] => k = i

C10_ResultXorError ==
    \A p \in Procs :
        Done(p) =>
            /\ frame[p].op \in PtrOps =>
                  \/ frame[p].ret.result.k = "ptr" /\ frame[p].ret.err = NoErr
                  \/ frame[p].ret.result = NilResult /\ frame[p].ret.err # NoErr
            /\ (frame[p].op \in StringOps /\ frame[p].ret.err # NoErr) =>
                  frame[p].ret.result = StrResult("")

C10_Witness ==
    \E p \in Procs :
        /\ Done(p) /\ frame[p].op = "GetTag"
        /\ frame[p].resp = [status |-> 200, body |-> JSONText(BadTagJSON)]
        /\ mem[p].Tag = "fall2024"
        /\ frame[p].ret = [result |-> NilResult, err |-> DecodeErr]
====
